---- MODULE Spec2Model ----
(***************************************************************************)
(* A model of the write-ahead log of src/src/main.rs: the WAL struct (one  *)
(* file handle opened in append mode plus the offset cursor), its four     *)
(* operations open, append, read_all and truncate, the file they share,    *)
(* and the storage below it (what the page cache holds, what the disk      *)
(* holds, and a process stop that keeps only the latter).                  *)
(*                                                                         *)
(* Bytes are digits of base ByteBase and the u32 length field is PrefixLen *)
(* such digits, so the 32-bit field of the source is a field of            *)
(* ByteBase^PrefixLen values here: the conversions keep the shape of the   *)
(* source (cast to the field width, big-endian digits) at a reduced width. *)
(***************************************************************************)
EXTENDS Integers, Sequences, FiniteSets, TLC

\* ---------------------------------------------------------------- bounds
\* Number of values a byte takes in the model (256 in the source).
ByteBase == 2
\* Longest payload the caller passes to append.
MaxPayLen == 2
\* append is not called once the file would grow beyond this many bytes.
MaxFileLen == 10
\* Failed writes, failed syncs and torn stops between two truncations.
MaxFaults == 1
\* Longest file that read_all is run on when the file holds arbitrary bytes.
MaxScanLen == 9

\* ------------------------------------------------------- program constants
\* Bytes of the length prefix: len.to_be_bytes() of a u32, [0u8; 4].
PrefixLen == 4

\* The handles (WAL values) that may exist over the one path.
Handles == {1, 2}
\* The handles the single-writer specification uses.
Writers == {1}

Bytes == 0 .. (ByteBase - 1)
\* Number of values of the length field (2^32 in the source).
U32Mod == ByteBase ^ PrefixLen

\* The payloads the caller passes to append: the empty one, and of every
\* length up to MaxPayLen the one of zeros, the one of ones and the one
\* that alternates.
Payloads ==
    {<<>>} \cup {[i \in 1 .. n |-> b] : n \in 1 .. MaxPayLen, b \in {0, 1}}
           \cup {[i \in 1 .. n |-> i % 2] : n \in 2 .. MaxPayLen}

\* Payloads whose length the length field cannot hold: the shortest such
\* and the next, of zeros and of ones.
OversizedPayloads ==
    {[i \in 1 .. (U32Mod + n) |-> b] : n \in 0 .. 1, b \in {0, 1}}

\* ------------------------------------------------------------- conversions
\* data.len() as u32
AsU32(n) == n % U32Mod

\* u32::to_be_bytes: most significant digit first (mutant: least first).
ToLEBytes(n) == [i \in 1 .. PrefixLen |-> (n \div (ByteBase ^ (i - 1))) % ByteBase]
ToBEBytes(n) == [i \in 1 .. PrefixLen |-> (n \div (ByteBase ^ (PrefixLen - i))) % ByteBase]

\* u32::from_be_bytes
RECURSIVE FromBEBytes(_)
FromBEBytes(b) ==
    IF Len(b) = 0 THEN 0
    ELSE FromBEBytes(SubSeq(b, 1, Len(b) - 1)) * ByteBase + b[Len(b)]

\* ------------------------------------------------------------ sequences
IsPrefix(s, t) == Len(s) <= Len(t) /\ SubSeq(t, 1, Len(s)) = s

\* s is t with some elements left out, order kept.
RECURSIVE IsSubseq(_, _)
IsSubseq(s, t) ==
    IF Len(s) = 0 THEN TRUE
    ELSE IF Len(t) = 0 THEN FALSE
    ELSE IF Head(s) = Head(t) THEN IsSubseq(Tail(s), Tail(t))
    ELSE IsSubseq(s, Tail(t))

Zeros(n) == [i \in 1 .. n |-> 0]

\* The file after a write of bytes b at byte offset at (a write past the
\* end leaves a hole of zeros).
WriteAt(f, at, b) ==
    LET g == IF at > Len(f) THEN f \o Zeros(at - Len(f)) ELSE f
    IN  SubSeq(g, 1, at) \o b \o SubSeq(g, at + Len(b) + 1, Len(g))

\* ------------------------------------------------------------------ state
VARIABLES
    file,          \* the bytes of the file as reads and writes see them
    disk,          \* the bytes of the file as of the last successful sync_all
    offset,        \* WAL.offset of each handle
    pos,           \* the file position of each handle's descriptor
    pc,            \* where each handle is: closed, idle, or inside a call
    data,          \* append's argument, while an append is in progress
    entry_offset,  \* append's local entry_offset, while it is in progress
    entries,       \* read_all's local entries, while its loop is running
    ret,           \* what each handle's last finished call returned
    startAt,       \* history: file offset where the prefix in progress landed
    posAt,         \* history: file position just before that prefix write
    acked,         \* history: payloads whose append returned Ok since truncate
    hist,          \* history: payloads of the appends that wrote to the file
                   \*          since it was cut
    dhist,         \* history: hist as of what the disk holds
    clean,         \* history: only successful appends, one at a time, since
                   \*          the log was empty
    cut,           \* history: a truncate returned Ok, and since then no call
                   \*          failed and no stop kept unsynced bytes
    sess,          \* history: what the last open found, and how it came about
    faults         \* history: failed writes, failed syncs and torn stops since
                   \*          the log was last emptied by a truncate

vars == <<file, disk, offset, pos, pc, data, entry_offset, entries, ret, startAt,
          posAt, acked, hist, dhist, clean, cut, sess, faults>>

\* A call's result: which operation, Ok or Err, whether the Err is an I/O
\* fault of the device, the offset (append) and the entries (read_all); for
\* an append, also the file offset at which its prefix landed.
Result(op, ok, io, off, recs, at) ==
    [op |-> op, ok |-> ok, io |-> io, off |-> off, recs |-> recs, at |-> at]

NoResult == Result("none", TRUE, FALSE, 0, <<>>, 0)

\* The session history at the start.
NoSession ==
    [ok |-> FALSE, base |-> <<>>, n |-> 0, stop |-> FALSE, torn |-> FALSE]

\* A call failed or cut the file: what the open found is history no more.
EndSession == [sess EXCEPT !.ok = FALSE, !.base = <<>>, !.n = 0]

\* ------------------------------------------------------------ read_all scan
\* SeekFrom::Start(0) (mutant: scan from wherever the descriptor is).
ScanFromPos(h) == pos[h]
ScanStart(h) == 0

\* The loop of read_all over file content f from offset p with the entries
\* acc read so far: fewer than PrefixLen bytes left ends the loop (read_exact
\* gives UnexpectedEof, break); a payload shorter than its prefix says is
\* the error read_exact returns through `?`.
RECURSIVE Scan(_, _, _)
Scan(f, p, acc) ==
    IF Len(f) - p < PrefixLen
    THEN [ok |-> TRUE, recs |-> acc, pos |-> IF p > Len(f) THEN p ELSE Len(f)]
    ELSE LET len == FromBEBytes(SubSeq(f, p + 1, p + PrefixLen))
             q   == p + PrefixLen
         IN  IF Len(f) - q < len
             THEN [ok |-> FALSE, recs |-> <<>>, pos |-> Len(f)]
             ELSE Scan(f, q + len, Append(acc, SubSeq(f, q + 1, q + len)))

\* The offsets at which the scan of f starts a read_exact.
RECURSIVE ScanPoints(_, _)
ScanPoints(f, p) ==
    IF Len(f) - p < PrefixLen THEN {p}
    ELSE LET len == FromBEBytes(SubSeq(f, p + 1, p + PrefixLen))
             q   == p + PrefixLen
         IN  IF Len(f) - q < len THEN {p, q}
             ELSE {p, q} \cup ScanPoints(f, q + len)

\* ------------------------------------------------------ the record format
\* The on-disk format append writes: PrefixLen bytes of big-endian length,
\* then that many payload bytes. WholeEnd is where the longest run of whole
\* records starting at p ends, WholeRecords their payloads.
RECURSIVE WholeEnd(_, _)
WholeEnd(f, p) ==
    IF Len(f) - p < PrefixLen THEN p
    ELSE LET len == FromBEBytes(SubSeq(f, p + 1, p + PrefixLen))
             q   == p + PrefixLen
         IN  IF Len(f) - q < len THEN p ELSE WholeEnd(f, q + len)

RECURSIVE WholeFrom(_, _)
WholeFrom(f, p) ==
    IF Len(f) - p < PrefixLen THEN <<>>
    ELSE LET len == FromBEBytes(SubSeq(f, p + 1, p + PrefixLen))
             q   == p + PrefixLen
         IN  IF Len(f) - q < len THEN <<>>
             ELSE <<SubSeq(f, q + 1, q + len)>> \o WholeFrom(f, q + len)

WholeRecords(f) == WholeFrom(f, 0)

\* f is whole records and nothing else.
WellFormed(f) == WholeEnd(f, 0) = Len(f)

\* One record as append writes it.
Frame(p) == ToBEBytes(AsU32(Len(p))) \o p

RECURSIVE Frames(_)
Frames(ps) == IF Len(ps) = 0 THEN <<>> ELSE Frame(Head(ps)) \o Frames(Tail(ps))

\* ------------------------------------------------------------------- Init
\* No file yet (an absent file and an empty one read alike), no handle.
Init ==
    /\ file = <<>>
    /\ disk = <<>>
    /\ offset = [h \in Handles |-> 0]
    /\ pos = [h \in Handles |-> 0]
    /\ pc = [h \in Handles |-> "closed"]
    /\ data = [h \in Handles |-> <<>>]
    /\ entry_offset = [h \in Handles |-> 0]
    /\ entries = [h \in Handles |-> <<>>]
    /\ ret = [h \in Handles |-> NoResult]
    /\ startAt = [h \in Handles |-> 0]
    /\ posAt = [h \in Handles |-> 0]
    /\ acked = <<>>
    /\ hist = <<>>
    /\ dhist = <<>>
    /\ clean = TRUE
    /\ cut = FALSE
    /\ sess = NoSession
    /\ faults = 0

\* A call returns r on handle h: its locals are gone.
Return(h, r) ==
    /\ pc' = [pc EXCEPT ![h] = "idle"]
    /\ ret' = [ret EXCEPT ![h] = r]
    /\ data' = [data EXCEPT ![h] = <<>>]
    /\ entry_offset' = [entry_offset EXCEPT ![h] = 0]
    /\ entries' = [entries EXCEPT ![h] = <<>>]
    /\ startAt' = [startAt EXCEPT ![h] = 0]
    /\ posAt' = [posAt EXCEPT ![h] = 0]

\* A write or a sync failed, or the process stopped, part-way through:
\* the scenarios that assume every call succeeded are over.
Fault ==
    /\ faults < MaxFaults
    /\ faults' = faults + 1
    /\ clean' = FALSE
    /\ cut' = FALSE

\* ------------------------------------------------------------------- open
\* file.seek(SeekFrom::End(0)): the size of the file.
SeekStart(f) == 0
SeekEnd(f) == Len(f)

\* WAL::open, successful: create(true), read(true), append(true), then the
\* cursor is the seek's result.
Open(h) ==
    /\ pc[h] = "closed"
    /\ offset' = [offset EXCEPT ![h] = SeekEnd(file)]
    /\ pos' = [pos EXCEPT ![h] = SeekEnd(file)]
    /\ pc' = [pc EXCEPT ![h] = "idle"]
    /\ ret' = [ret EXCEPT ![h] = Result("open", TRUE, FALSE, 0, <<>>, 0)]
    /\ sess' = IF WellFormed(file)
               THEN [ok |-> TRUE, base |-> WholeRecords(file), n |-> Len(acked),
                     stop |-> FALSE, torn |-> sess.torn]
               ELSE [EndSession EXCEPT !.stop = FALSE]
    /\ UNCHANGED <<entries, file, disk, data, entry_offset, startAt, posAt, acked, hist, dhist,
                   clean, cut, faults>>

\* WAL::open, failing: open or seek returns Err and no WAL value exists.
OpenFail(h) ==
    /\ pc[h] = "closed"
    /\ ret' = [ret EXCEPT ![h] = Result("open", FALSE, TRUE, 0, <<>>, 0)]
    /\ UNCHANGED <<entries, file, disk, offset, pos, pc, data, entry_offset, startAt,
                   posAt, acked, hist, dhist, clean, cut, sess, faults>>

\* The WAL value is dropped (the descriptor is closed; nothing is flushed).
Close(h) ==
    /\ pc[h] = "idle"
    /\ pc' = [pc EXCEPT ![h] = "closed"]
    /\ ret' = [ret EXCEPT ![h] = NoResult]
    /\ offset' = [offset EXCEPT ![h] = 0]
    /\ pos' = [pos EXCEPT ![h] = 0]
    /\ sess' = EndSession
    /\ UNCHANGED <<entries, file, disk, data, entry_offset, startAt, posAt, acked, hist, dhist,
                   clean, cut, faults>>

\* ----------------------------------------------------------------- append
\* Where a write of handle h lands: the descriptor is opened with
\* append(true), so at the end of the file whatever its position is
\* (mutant: opened without it, the write lands at the position).
WriteAtPosition(h) == pos[h]
WritePos(h) == Len(file)

\* The caller may call append with p now (the model's bound; the bytes of
\* a payload too long for the length field are not counted against it).
MayAppend(p) ==
    Len(file) + PrefixLen + Len(p)
        <= MaxFileLen + (IF Len(p) >= U32Mod THEN Len(p) ELSE 0)

AppendErr == Result("append", FALSE, TRUE, 0, <<>>, 0)

\* No other handle is inside an append: append takes &mut self, which keeps
\* the calls on one WAL value apart, and nothing keeps two WAL values over
\* one path apart.
OthersQuiet(h) == \A g \in Handles \ {h} : pc[g] \notin {"payload", "sync"}

\* append up to the successful write of the length prefix.
AppendPrefix(h, p) ==
    /\ pc[h] = "idle"
    /\ MayAppend(p)
    /\ LET at == WritePos(h)
           b  == ToBEBytes(AsU32(Len(p)))
       IN  /\ file' = WriteAt(file, at, b)
           /\ pos' = [pos EXCEPT ![h] = at + Len(b)]
           /\ startAt' = [startAt EXCEPT ![h] = at]
    /\ posAt' = [posAt EXCEPT ![h] = pos[h]]
    /\ data' = [data EXCEPT ![h] = p]
    /\ entry_offset' = [entry_offset EXCEPT ![h] = offset[h]]
    /\ pc' = [pc EXCEPT ![h] = "payload"]
    /\ hist' = Append(hist, p)
    /\ clean' = (clean /\ OthersQuiet(h))
    /\ UNCHANGED <<entries, disk, offset, ret, acked, dhist, cut, sess, faults>>

\* append whose write of the prefix fails after k of its bytes: write_all
\* returns Err and `?` leaves append.
AppendPrefixFail(h, p, k) ==
    /\ pc[h] = "idle"
    /\ MayAppend(p)
    /\ Fault
    /\ LET at == WritePos(h)
           b  == SubSeq(ToBEBytes(AsU32(Len(p))), 1, k)
       IN  /\ file' = WriteAt(file, at, b)
           /\ pos' = [pos EXCEPT ![h] = IF k = 0 THEN pos[h] ELSE at + k]
    /\ Return(h, AppendErr)
    /\ hist' = IF k = 0 THEN hist ELSE Append(hist, p)
    /\ sess' = EndSession
    /\ UNCHANGED <<disk, offset, acked, dhist>>

\* The write of the payload succeeds.
AppendPayload(h) ==
    /\ pc[h] = "payload"
    /\ LET at == WritePos(h)
       IN  /\ file' = WriteAt(file, at, data[h])
           /\ pos' = [pos EXCEPT ![h] = IF Len(data[h]) = 0 THEN pos[h]
                                        ELSE at + Len(data[h])]
    /\ pc' = [pc EXCEPT ![h] = "sync"]
    /\ UNCHANGED <<entries, disk, offset, data, entry_offset, ret, startAt, posAt, acked,
                   hist, dhist, clean, cut, sess, faults>>

\* The write of the payload fails after k of its bytes (an empty payload
\* is written by no system call and cannot fail).
AppendPayloadFail(h, k) ==
    /\ pc[h] = "payload"
    /\ k < Len(data[h])
    /\ Fault
    /\ LET at == WritePos(h)
       IN  /\ file' = WriteAt(file, at, SubSeq(data[h], 1, k))
           /\ pos' = [pos EXCEPT ![h] = IF k = 0 THEN pos[h] ELSE at + k]
    /\ Return(h, AppendErr)
    /\ sess' = EndSession
    /\ UNCHANGED <<disk, offset, acked, hist, dhist>>

\* self.offset += 4 + data.len() as u64 (mutant: the prefix is not counted).
AdvancePayloadOnly(h) == offset[h] + Len(data[h])
Advance(h) == offset[h] + PrefixLen + Len(data[h])

\* sync_all succeeds: the file is on disk, the cursor advances, append
\* returns Ok(entry_offset).
AppendSync(h) ==
    /\ pc[h] = "sync"
    /\ disk' = file
    /\ offset' = [offset EXCEPT ![h] = Advance(h)]
    /\ Return(h, Result("append", TRUE, FALSE, entry_offset[h], <<>>, startAt[h]))
    /\ acked' = Append(acked, data[h])
    /\ dhist' = hist
    /\ UNCHANGED <<file, pos, hist, clean, cut, sess, faults>>

\* sync_all fails: append returns Err, the cursor stays.
AppendSyncFail(h) ==
    /\ pc[h] = "sync"
    /\ Fault
    /\ Return(h, AppendErr)
    /\ sess' = EndSession
    /\ UNCHANGED <<file, disk, offset, pos, acked, hist, dhist>>

\* --------------------------------------------------------------- read_all
ReadFault == Result("read_all", FALSE, TRUE, 0, <<>>, 0)

\* What read_all on handle h finds in the file as it is.
ReadAllResult(h) == Scan(file, ScanStart(h), <<>>)

\* read_all's effect on self.offset: the seek's result is dropped and the
\* field is not assigned.
OffsetFromSeek(h) == ScanStart(h)
OffsetAfterRead(h) == offset[h]

\* WAL::read_all when no device fault occurs: seek to the start, scan,
\* return Ok(entries) or the UnexpectedEof of a short payload.
ReadAll(h) ==
    /\ pc[h] = "idle"
    /\ LET r == ReadAllResult(h)
       IN  /\ ret' = [ret EXCEPT ![h] =
                         Result("read_all", r.ok, FALSE, 0, r.recs, 0)]
           /\ pos' = [pos EXCEPT ![h] = r.pos]
    /\ offset' = [offset EXCEPT ![h] = OffsetAfterRead(h)]
    /\ UNCHANGED <<entries, file, disk, pc, data, entry_offset, startAt, posAt,
                   acked, hist, dhist, clean, cut, sess, faults>>

\* Where a device fault may leave the descriptor: where it was (the seek
\* failed), or where the scan's first or second read_exact starts.
ReadFaultOffsets(h) ==
    {pos[h]} \cup {at \in ScanPoints(file, ScanStart(h)) : at <= ScanStart(h) + PrefixLen}

\* WAL::read_all when the device fails: the seek or a read_exact returns
\* an error other than UnexpectedEof.
ReadAllFault(h, at) ==
    /\ pc[h] = "idle"
    /\ at \in ReadFaultOffsets(h)
    /\ ret' = [ret EXCEPT ![h] = ReadFault]
    /\ pos' = [pos EXCEPT ![h] = at]
    /\ UNCHANGED <<entries, file, disk, offset, pc, data, entry_offset, startAt, posAt,
                   acked, hist, dhist, clean, cut, sess, faults>>

\* ------------------------------------------- read_all, one step at a time
\* Where the descriptor is after the iteration that began at p and read a
\* record of len payload bytes: read_exact has consumed the prefix and the
\* payload (mutant: the prefix is not consumed).
AfterPayloadOnly(p, len) == p + len
AfterRecord(p, len) == p + PrefixLen + len

\* The length the prefix at the descriptor's position declares.
DeclaredLen(h) == FromBEBytes(SubSeq(file, pos[h] + 1, pos[h] + PrefixLen))

\* let mut entries = Vec::new(); seek(SeekFrom::Start(0)): the loop begins.
ReadAllSeek(h) ==
    /\ pc[h] = "idle"
    /\ pc' = [pc EXCEPT ![h] = "scan"]
    /\ pos' = [pos EXCEPT ![h] = ScanStart(h)]
    /\ entries' = [entries EXCEPT ![h] = <<>>]
    /\ UNCHANGED <<file, disk, offset, data, entry_offset, ret, startAt, posAt,
                   acked, hist, dhist, clean, cut, sess, faults>>

\* One completed iteration: both read_exact calls succeed and the payload
\* is pushed.
ReadAllRecord(h) ==
    /\ pc[h] = "scan"
    /\ Len(file) - pos[h] >= PrefixLen
    /\ Len(file) - (pos[h] + PrefixLen) >= DeclaredLen(h)
    /\ entries' = [entries EXCEPT ![h] =
                      Append(@, SubSeq(file, pos[h] + PrefixLen + 1,
                                       pos[h] + PrefixLen + DeclaredLen(h)))]
    /\ pos' = [pos EXCEPT ![h] = AfterRecord(pos[h], DeclaredLen(h))]
    /\ UNCHANGED <<file, disk, offset, pc, data, entry_offset, ret, startAt, posAt,
                   acked, hist, dhist, clean, cut, sess, faults>>

\* The last iteration when fewer than PrefixLen bytes are left: read_exact
\* of the prefix gives UnexpectedEof, break, Ok(entries).
ReadAllEof(h) ==
    /\ pc[h] = "scan"
    /\ Len(file) - pos[h] < PrefixLen
    /\ pos' = [pos EXCEPT ![h] = IF pos[h] > Len(file) THEN pos[h] ELSE Len(file)]
    /\ Return(h, Result("read_all", TRUE, FALSE, 0, entries[h], 0))
    /\ UNCHANGED <<file, disk, offset, acked, hist, dhist, clean, cut, sess, faults>>

\* The last iteration when the payload is shorter than its prefix says:
\* read_exact of the payload gives UnexpectedEof, which `?` returns.
ReadAllShort(h) ==
    /\ pc[h] = "scan"
    /\ Len(file) - pos[h] >= PrefixLen
    /\ Len(file) - (pos[h] + PrefixLen) < DeclaredLen(h)
    /\ pos' = [pos EXCEPT ![h] = Len(file)]
    /\ Return(h, Result("read_all", FALSE, FALSE, 0, <<>>, 0))
    /\ UNCHANGED <<file, disk, offset, acked, hist, dhist, clean, cut, sess, faults>>

\* --------------------------------------------------------------- truncate
\* File::set_len(n): cut, or extend with zeros.
SetLen(f, n) == IF n <= Len(f) THEN SubSeq(f, 1, n) ELSE f \o Zeros(n - Len(f))

\* self.file.set_len(0) (mutant: the file is cut to the cursor).
TruncateToOffset(h) == offset[h]
TruncateLen(h) == 0

TruncateErr == Result("truncate", FALSE, TRUE, 0, <<>>, 0)

\* truncate up to the successful set_len.
TruncateSetLen(h) ==
    /\ pc[h] = "idle"
    /\ file' = SetLen(file, TruncateLen(h))
    /\ pc' = [pc EXCEPT ![h] = "tsync"]
    /\ acked' = <<>>
    /\ hist' = <<>>
    /\ clean' = FALSE
    /\ cut' = FALSE
    /\ sess' = EndSession
    /\ UNCHANGED <<entries, disk, offset, pos, data, entry_offset, ret, startAt, posAt,
                   dhist, faults>>

\* set_len fails: truncate returns Err, nothing changed.
TruncateSetLenFail(h) ==
    /\ pc[h] = "idle"
    /\ Fault
    /\ Return(h, TruncateErr)
    /\ sess' = EndSession
    /\ UNCHANGED <<file, disk, offset, pos, acked, hist, dhist>>

\* self.offset = 0 (mutant: the assignment is missing).
KeepOffset(h) == offset[h]
ResetOffset(h) == 0

\* sync_all succeeds, the cursor is reset, truncate returns Ok(()).
TruncateSync(h) ==
    /\ pc[h] = "tsync"
    /\ disk' = file
    /\ offset' = [offset EXCEPT ![h] = ResetOffset(h)]
    /\ Return(h, Result("truncate", TRUE, FALSE, 0, <<>>, 0))
    /\ dhist' = hist
    /\ clean' = (Len(file) = 0)
    /\ cut' = (Len(file) = 0)
    /\ faults' = IF Len(file) = 0 THEN 0 ELSE faults
    /\ sess' = [sess EXCEPT !.torn = (sess.torn /\ Len(file) # 0)]
    /\ UNCHANGED <<file, pos, acked, hist>>

\* sync_all fails: truncate returns Err before the cursor is reset.
TruncateSyncFail(h) ==
    /\ pc[h] = "tsync"
    /\ Fault
    /\ Return(h, TruncateErr)
    /\ UNCHANGED <<file, disk, offset, pos, acked, hist, dhist, sess>>

\* ---------------------------------------------------------------- storage
\* What a stop may leave of the file: what the last sync_all put on disk,
\* or, the operating system writing cached bytes back on its own, the first
\* k bytes of the file (more than the disk had, or, when a cut of the file
\* is not synced yet, the cut and then k bytes).
Survives(k) ==
    /\ k \in 0 .. Len(file)
    /\ SubSeq(file, 1, k) # disk
    /\ IsPrefix(disk, file) => k > Len(disk)

Stop(f, torn) ==
    /\ file' = f
    /\ disk' = f
    /\ offset' = [h \in Handles |-> 0]
    /\ pos' = [h \in Handles |-> 0]
    /\ pc' = [h \in Handles |-> "closed"]
    /\ data' = [h \in Handles |-> <<>>]
    /\ entry_offset' = [h \in Handles |-> 0]
    /\ entries' = [h \in Handles |-> <<>>]
    /\ ret' = [h \in Handles |-> NoResult]
    /\ startAt' = [h \in Handles |-> 0]
    /\ posAt' = [h \in Handles |-> 0]
    /\ sess' = [EndSession EXCEPT !.stop = TRUE, !.torn = torn]
    /\ UNCHANGED acked

\* The process stops (crash, kill, power loss) and only synced bytes survive.
Crash ==
    /\ Stop(disk, sess.torn)
    /\ hist' = dhist
    /\ clean' = FALSE
    /\ UNCHANGED <<dhist, cut, faults>>

\* The process stops and bytes written back without a sync survive too.
CrashTorn(k) ==
    /\ Survives(k)
    /\ Fault
    /\ Stop(SubSeq(file, 1, k), TRUE)
    /\ dhist' = hist
    /\ UNCHANGED hist

\* ------------------------------------------------------------------- Spec
\* One writer: every call is made on the one handle, one call at a time.
Next ==
    \/ \E h \in Writers : Open(h)
    \/ \E h \in Writers : OpenFail(h)
    \/ \E h \in Writers : Close(h)
    \/ \E h \in Writers, p \in Payloads : AppendPrefix(h, p)
    \/ \E h \in Writers, p \in Payloads, k \in 0 .. (PrefixLen - 1) :
          AppendPrefixFail(h, p, k)
    \/ \E h \in Writers : AppendPayload(h)
    \/ \E h \in Writers, k \in 0 .. (MaxPayLen - 1) : AppendPayloadFail(h, k)
    \/ \E h \in Writers : AppendSync(h)
    \/ \E h \in Writers : AppendSyncFail(h)
    \/ \E h \in Writers : ReadAll(h)
    \/ \E h \in Writers, at \in 0 .. MaxFileLen : ReadAllFault(h, at)
    \/ \E h \in Writers : TruncateSetLen(h)
    \/ \E h \in Writers : TruncateSetLenFail(h)
    \/ \E h \in Writers : TruncateSync(h)
    \/ \E h \in Writers : TruncateSyncFail(h)
    \/ Crash
    \/ \E k \in 0 .. MaxFileLen : CrashTorn(k)

Spec == Init /\ [][Next]_vars

\* ----------------------------------------------------------------- claims
\* Handle h holds the result of a read_all that met no device fault, and
\* has made no call since.
HasRead(h) == pc[h] = "idle" /\ ret[h].op = "read_all" /\ ~ret[h].io

\* Handle h holds the Ok of an append, and has made no call since.
HasAppended(h) == pc[h] = "idle" /\ ret[h].op = "append" /\ ret[h].ok

\* Bytes that the records rs take in the file.
FramedSize(rs) == Len(Frames(rs))

\* C1 (as claimed): when the process has stopped, and the file never held
\* bytes that a stop kept without a sync, read_all of a WAL opened now
\* returns Ok with every record among its entries whose append returned Ok
\* (no truncate called since).
C1_Durability ==
    \A h \in Writers :
        (sess.stop /\ ~sess.torn /\ acked # <<>>)
            => (ReadAllResult(h).ok /\ IsSubseq(acked, ReadAllResult(h).recs))

\* C2 (as claimed): on a file of whole records followed by a partial record
\* read_all returns Ok with exactly the whole records.
C2_TruncatedTail ==
    \A h \in Writers :
        (HasRead(h) /\ ~WellFormed(file))
            => (ret[h].ok /\ ret[h].recs = WholeRecords(file))

\* C3: after payloads P1..Pn were appended to an empty log, every append
\* returning Ok and nothing else going wrong, read_all returns Ok([P1..Pn]),
\* on the appending WAL and on one opened afterwards.
C3_RoundTrip ==
    \A h \in Writers :
        (HasRead(h) /\ clean) => (ret[h].ok /\ ret[h].recs = acked)

\* C3's case: two different payloads were appended to the empty log, the
\* WAL was dropped, a new one opened, and its read_all has returned.
C3_Witness ==
    /\ HasRead(1) /\ clean /\ ret[1].ok
    /\ Len(acked) = 2 /\ acked[1] # acked[2] /\ Len(acked[1]) > 0
    /\ sess.ok /\ sess.n = 2

\* C4 (as claimed): whenever no call is in progress the cursor is the
\* length of the file, also after calls that returned Err.
C4_CursorInvariant ==
    \A h \in Writers : pc[h] = "idle" => offset[h] = Len(file)

\* C5 (as claimed, read generously: a payload whose append failed may be
\* missing): the whole records of the durable file are payloads that were
\* passed to append since the file was last cut, in the order of the calls.
C5_Ordering == IsSubseq(WholeRecords(disk), dhist)

\* C6 (as claimed): the offset a successful append returns is the file
\* offset at which the record's length prefix was written.
C6_OffsetContract ==
    \A h \in Writers : HasAppended(h) => ret[h].off = ret[h].at

\* C7: a WAL opened over a file of whole records R1..Rm, whose calls since
\* all succeeded, writes each new record after the bytes found at open and
\* returns an offset after them, and
\* its read_all returns Ok([R1..Rm, Q1..Qk]) for the payloads Q1..Qk it
\* appended.
C7_ResumeAfterReopen ==
    \A h \in Writers :
        /\ (HasRead(h) /\ sess.ok)
              => /\ ret[h].ok
                 /\ ret[h].recs = sess.base \o SubSeq(acked, sess.n + 1, Len(acked))
        /\ (HasAppended(h) /\ sess.ok)
              => /\ ret[h].at >= FramedSize(sess.base)
                 /\ ret[h].off >= FramedSize(sess.base)

\* C7's case: a record was found at open, another one was appended, and
\* read_all has returned both.
C7_Witness ==
    /\ HasRead(1) /\ sess.ok /\ ret[1].ok
    /\ Len(sess.base) >= 1 /\ Len(acked) > sess.n
    /\ Len(ret[1].recs) > Len(sess.base)

\* C8: once truncate has returned Ok, while no later call fails: before
\* any append the file is empty, in the cache and on disk, and the cursor
\* is 0; read_all returns Ok of the payloads appended since (none: the
\* empty sequence), on this WAL and on one opened after a stop; the first
\* append returns offset 0.
C8_TruncatePostState ==
    \A h \in Writers :
        /\ (cut /\ acked = <<>> /\ pc[h] = "idle")
              => (file = <<>> /\ disk = <<>> /\ offset[h] = 0)
        /\ (cut /\ HasRead(h)) => (ret[h].ok /\ ret[h].recs = acked)
        /\ (cut /\ HasAppended(h) /\ Len(acked) = 1) => ret[h].off = 0

\* C8's case: a log that held a record was truncated, one payload was
\* appended, and read_all has returned it.
C8_Witness ==
    /\ cut /\ HasRead(1) /\ Len(acked) = 1 /\ ret[1].recs = acked
    /\ offset[1] = FramedSize(acked)

\* A step of a call other than truncate, on any handle.
NonTruncateStep ==
    \E h \in Handles :
        \/ Open(h) \/ OpenFail(h) \/ Close(h)
        \/ \E p \in Payloads : AppendPrefix(h, p)
        \/ \E p \in Payloads, k \in 0 .. (PrefixLen - 1) : AppendPrefixFail(h, p, k)
        \/ AppendPayload(h)
        \/ \E k \in 0 .. (MaxPayLen - 1) : AppendPayloadFail(h, k)
        \/ AppendSync(h) \/ AppendSyncFail(h)
        \/ ReadAll(h)
        \/ \E at \in 0 .. MaxFileLen : ReadAllFault(h, at)

\* C9: no step of open, append or read_all changes or removes a byte of
\* the file: the file before the step is a prefix of the file after it.
C9_AppendOnly == [][NonTruncateStep => IsPrefix(file, file')]_vars

\* C9's case: a prefix has been written while the descriptor's position
\* was before the end of the file, and it landed at the end.
C9_Witness ==
    /\ pc[1] = "payload"
    /\ posAt[1] < startAt[1]
    /\ Len(file) = startAt[1] + PrefixLen

\* Handle h's read_all returns in this step.
ReadAllReturns(h) ==
    /\ pc[h] = "idle" /\ pc'[h] = "idle"
    /\ ret'[h].op = "read_all"
    /\ (ret'[h] # ret[h] \/ pos'[h] # pos[h])

\* C10: a read_all, whether it returns Ok or Err, changes neither the
\* cursor nor the file nor what is on disk, and returns what the read_all
\* before it returned when no other call came between.
C10_ReadAllReadOnly ==
    [][\A h \in Writers :
          ReadAllReturns(h) =>
              /\ offset' = offset /\ file' = file /\ disk' = disk
              /\ (ret[h].op = "read_all" /\ ~ret[h].io /\ ~ret'[h].io)
                    => ret'[h] = ret[h]]_vars

\* C10's case: read_all has returned the records of a file that holds
\* some, and the cursor is still the length of the file.
C10_Witness ==
    /\ HasRead(1) /\ ret[1].ok /\ Len(ret[1].recs) >= 2
    /\ offset[1] = Len(file)

\* Handle h's append fails in this step after its prefix was written: the
\* write of the payload fails, or the sync does.
AppendFailsAfterPrefix(h) ==
    \/ \E k \in 0 .. (MaxPayLen - 1) : AppendPayloadFail(h, k)
    \/ AppendSyncFail(h)

\* C11 (as claimed): an append on a file of whole records whose payload
\* write or sync fails returns Err, leaves the cursor where it was and
\* commits nothing, and a read_all after it returns Ok with exactly the
\* records the file held before the call.
C11_AppendFailure ==
    [][\A h \in Writers :
          (AppendFailsAfterPrefix(h) /\ WellFormed(SubSeq(file, 1, startAt[h])))
              => /\ ret'[h].op = "append" /\ ~ret'[h].ok
                 /\ offset'[h] = offset[h]
                 /\ acked' = acked
                 /\ LET r == Scan(file', ScanStart(h), <<>>)
                    IN  /\ r.ok
                        /\ r.recs = WholeRecords(SubSeq(file, 1, startAt[h]))]_vars

\* C12: truncate on an empty file leaves it empty; every truncate that is
\* not stopped by a device fault returns Ok with the file empty, in the
\* cache and on disk, the cursor 0 and nothing for read_all to return; and
\* a truncate that follows a truncate that returned Ok leaves the file,
\* the disk, the cursor, the descriptor and the result as the first did.
C12_IdempotentTruncate ==
    [][\A h \in Writers :
          /\ (TruncateSetLen(h) /\ file = <<>>) => file' = <<>>
          /\ TruncateSync(h)
                => /\ ret'[h].op = "truncate" /\ ret'[h].ok
                   /\ file' = <<>> /\ disk' = <<>> /\ offset'[h] = 0
                   /\ Scan(file', ScanStart(h), <<>>).ok
                   /\ Scan(file', ScanStart(h), <<>>).recs = <<>>
          /\ (TruncateSync(h) /\ ret[h].op = "truncate" /\ ret[h].ok)
                => <<file', disk', offset', pos', ret'>>
                      = <<file, disk, offset, pos, ret>>]_vars

\* C12's case: truncate has returned Ok and a second truncate, called
\* right after it on the empty log, has done its set_len.
C12_Witness ==
    /\ pc[1] = "tsync" /\ ret[1].op = "truncate" /\ ret[1].ok
    /\ file = <<>> /\ disk = <<>> /\ offset[1] = 0

\* ------------------------------------------------- any payload, no faults
\* One writer whose caller passes payloads of any length, the oversized
\* ones included; the device never fails and a stop keeps synced bytes.
NextWide ==
    \/ \E h \in Writers : Open(h)
    \/ \E h \in Writers : Close(h)
    \/ \E h \in Writers, p \in Payloads \cup OversizedPayloads : AppendPrefix(h, p)
    \/ \E h \in Writers : AppendPayload(h)
    \/ \E h \in Writers : AppendSync(h)
    \/ \E h \in Writers : ReadAll(h)
    \/ \E h \in Writers : TruncateSetLen(h)
    \/ \E h \in Writers : TruncateSync(h)
    \/ Crash

SpecWide == Init /\ [][NextWide]_vars

\* C13 (as claimed): while an append is past its prefix write, the payload
\* it was given fits the length field and the prefix it wrote says the
\* payload's length: no payload gets as far as a write with a length the
\* field cannot hold.
C13_LengthBound ==
    \A h \in Writers :
        pc[h] \in {"payload", "sync"}
            => /\ Len(data[h]) < U32Mod
               /\ FromBEBytes(SubSeq(file, startAt[h] + 1, startAt[h] + PrefixLen))
                     = Len(data[h])

\* ------------------------------------------------- one process, no stop
\* One writer in a process that never stops: calls may fail on the device,
\* the WAL may be dropped and opened again.
NextNoCrash ==
    \/ \E h \in Writers : Open(h)
    \/ \E h \in Writers : OpenFail(h)
    \/ \E h \in Writers : Close(h)
    \/ \E h \in Writers, p \in Payloads : AppendPrefix(h, p)
    \/ \E h \in Writers, p \in Payloads, k \in 0 .. (PrefixLen - 1) :
          AppendPrefixFail(h, p, k)
    \/ \E h \in Writers : AppendPayload(h)
    \/ \E h \in Writers, k \in 0 .. (MaxPayLen - 1) : AppendPayloadFail(h, k)
    \/ \E h \in Writers : AppendSync(h)
    \/ \E h \in Writers : AppendSyncFail(h)
    \/ \E h \in Writers : ReadAll(h)
    \/ \E h \in Writers, at \in 0 .. MaxFileLen : ReadAllFault(h, at)
    \/ \E h \in Writers : TruncateSetLen(h)
    \/ \E h \in Writers : TruncateSetLenFail(h)
    \/ \E h \in Writers : TruncateSync(h)
    \/ \E h \in Writers : TruncateSyncFail(h)

SpecNoCrash == Init /\ [][NextNoCrash]_vars

\* C14 (as claimed): with one writer and no stop of the process, whenever
\* no append is in progress the file is whole records and nothing else.
C14_FormatInvariant ==
    (\A h \in Writers : pc[h] \notin {"payload", "sync"}) => WellFormed(file)

\* ------------------------------------------------------------ two writers
\* Two WAL values over the one path, each used by its own thread, with
\* nothing between them: the steps of their calls interleave freely. The
\* device never fails and the process does not stop.
NextTwo ==
    \/ \E h \in Handles : Open(h)
    \/ \E h \in Handles : Close(h)
    \/ \E h \in Handles, p \in Payloads : AppendPrefix(h, p)
    \/ \E h \in Handles : AppendPayload(h)
    \/ \E h \in Handles : AppendSync(h)
    \/ \E h \in Handles : ReadAll(h)

SpecTwo == Init /\ [][NextTwo]_vars

\* No call is in progress on any handle.
Quiet == \A h \in Handles : pc[h] \in {"idle", "closed"}

\* C15: with two writers, as long as no append began while another was in
\* progress, whenever no call is in progress the file is the records of the
\* appended payloads in the order of the calls, and read_all on either
\* handle returns exactly them.
C15_SerializedWriters ==
    (clean /\ Quiet)
        => /\ file = Frames(acked)
           /\ \A h \in Handles :
                 pc[h] = "idle"
                     => /\ ReadAllResult(h).ok
                        /\ ReadAllResult(h).recs = acked

\* C15's case: two appends overlapped and both returned Ok; the file is
\* the records of the two payloads in neither order, read_all returns the
\* two payloads in neither order, and neither cursor is the file length.
C15_Witness ==
    /\ ~clean /\ HasAppended(1) /\ HasAppended(2) /\ Len(acked) = 2
    /\ file # Frames(acked) /\ file # Frames(<<acked[2], acked[1]>>)
    /\ LET r == ReadAllResult(1)
       IN  ~(r.ok /\ (IsSubseq(acked, r.recs) \/ IsSubseq(<<acked[2], acked[1]>>, r.recs)))
    /\ offset[1] # Len(file) /\ offset[2] # Len(file)

\* The file as it was when the append that handle h just finished began.
FileBeforeAppend(h) == SubSeq(file, 1, ret[h].at)

\* C16 (as claimed): when an append has returned Ok on a file that ended
\* with a partial record, read_all returns Ok with the whole records that
\* came before the partial one followed by the payload just appended.
C16_AppendAfterDanglingTail ==
    \A h \in Writers :
        (HasAppended(h) /\ ~WellFormed(FileBeforeAppend(h)))
            => /\ ReadAllResult(h).ok
               /\ ReadAllResult(h).recs
                     = WholeRecords(FileBeforeAppend(h)) \o <<acked[Len(acked)]>>

\* C17 (as claimed): in a process that never stops, on a log that began
\* empty, the entries a read_all returns are payloads whose append returned
\* Ok (no truncate called since), in the order of the calls.
C17_NoPhantomRecords ==
    \A h \in Writers :
        (HasRead(h) /\ ret[h].ok) => IsSubseq(ret[h].recs, acked)

\* ------------------------------------------- read_all on arbitrary files
\* Every byte string of up to MaxScanLen bytes.
ScanFiles == UNION {[1 .. n -> Bytes] : n \in 0 .. MaxScanLen}

\* A file of arbitrary bytes, all of it on disk, and a WAL just opened
\* over it.
InitScan ==
    /\ file \in ScanFiles
    /\ disk = file
    /\ offset = [h \in Handles |-> IF h \in Writers THEN SeekEnd(file) ELSE 0]
    /\ pos = [h \in Handles |-> IF h \in Writers THEN SeekEnd(file) ELSE 0]
    /\ pc = [h \in Handles |-> IF h \in Writers THEN "idle" ELSE "closed"]
    /\ data = [h \in Handles |-> <<>>]
    /\ entry_offset = [h \in Handles |-> 0]
    /\ entries = [h \in Handles |-> <<>>]
    /\ ret = [h \in Handles |-> IF h \in Writers
                                 THEN Result("open", TRUE, FALSE, 0, <<>>, 0)
                                 ELSE NoResult]
    /\ startAt = [h \in Handles |-> 0]
    /\ posAt = [h \in Handles |-> 0]
    /\ acked = <<>>
    /\ hist = <<>>
    /\ dhist = <<>>
    /\ clean = FALSE
    /\ cut = FALSE
    /\ sess = NoSession
    /\ faults = 0

\* read_all, called any number of times, its loop taken one iteration at a
\* time.
NextScan ==
    \/ \E h \in Writers : ReadAllSeek(h)
    \/ \E h \in Writers : ReadAllRecord(h)
    \/ \E h \in Writers : ReadAllEof(h)
    \/ \E h \in Writers : ReadAllShort(h)

\* A loop that has begun runs on: the thread inside read_all is not held.
ScanRuns == \E h \in Writers : ReadAllRecord(h) \/ ReadAllEof(h) \/ ReadAllShort(h)

SpecScan == InitScan /\ [][NextScan]_vars /\ WF_vars(ScanRuns)

\* C18: on every file the loop of read_all ends: while it runs the
\* descriptor is within the file and at least PrefixLen bytes along per
\* completed iteration; a completed iteration moves it forward by at least
\* PrefixLen and no step moves it backwards; the loop is left, and what
\* read_all then returns is Ok of the records scanned or the Err of a short
\* payload, as the scan of the whole file gives it.
C18_ReadAllTerminates ==
    /\ [](pc[1] = "scan"
            => /\ pos[1] <= Len(file)
               /\ Len(entries[1]) * PrefixLen <= pos[1])
    /\ [][/\ ReadAllRecord(1)
              => /\ pos'[1] >= pos[1] + PrefixLen
                 /\ Len(entries'[1]) = Len(entries[1]) + 1
          /\ pc[1] = "scan" => pos'[1] >= pos[1]]_vars
    /\ (pc[1] = "scan") ~> HasRead(1)
    /\ [](HasRead(1)
            => /\ ret[1].ok = ReadAllResult(1).ok
               /\ ret[1].recs = ReadAllResult(1).recs
               /\ pos[1] = ReadAllResult(1).pos
               /\ Len(ret[1].recs) * PrefixLen <= Len(file))

\* C18's case: read_all has returned from a file that begins with a record
\* of length 0, holds a second record and ends with a partial one.
C18_Witness ==
    /\ HasRead(1) /\ ret[1].ok /\ Len(ret[1].recs) = 2
    /\ ret[1].recs[1] = <<>> /\ ~WellFormed(file)
====
